---- MODULE Spec2Model ----
(***************************************************************************)
(* haberdasher: a container-sidecar supervisor.  main.go launches one      *)
(* child, relays termination signals to it and turns every line of the     *)
(* child's stderr into a structured record handed to an Emitter;           *)
(* logging/emit.go holds the configuration parsing (init), the Emitter     *)
(* interface and the per-line classification (Emit).                       *)
(*                                                                         *)
(* Text is modelled as the sequence of its bytes (0..255), so that JSON    *)
(* syntax, escapes, UTF-8 validity and the order of map keys are decided   *)
(* byte by byte as encoding/json decides them.                             *)
(***************************************************************************)
EXTENDS Integers, Sequences, FiniteSets, TLC

\* ------------------------------------------------------------------ bounds
MaxLines == 1
MaxSignals == 1
MaxBurst == 2
MaxSigBurst == 2
MaxLiveLines == 1

\* ------------------------------------------------------- program constants
\* emit.go 12: "1.5.0"
defaultEcsVersion == <<49, 46, 53, 46, 48>>
Sentinel == -1
ChanCap == 1

ChildPid == 42

\* ------------------------------------------------- encoding/json on bytes
\* the byte at position i, -1 past the end
At(toks, i) == IF i <= Len(toks) THEN toks[i] ELSE -1

\* the bytes lit stand at position i
HasAt(toks, i, lit) ==
  /\ i + Len(lit) - 1 <= Len(toks)
  /\ \A n \in 1..Len(lit) : toks[i + n - 1] = lit[n]

\* blank, tab, carriage return, line feed
IsWS(b) == b \in {32, 9, 13, 10}
IsDigit(b) == b \in 48..57
IsHex(b) == b \in (48..57) \cup (65..70) \cup (97..102)
HexVal(b) == IF b \in 48..57 THEN b - 48 ELSE IF b \in 65..70 THEN b - 55 ELSE b - 87
HexDigit(n) == IF n < 10 THEN 48 + n ELSE 87 + n

\* a continuation byte of UTF-8
Cont(b) == b \in 128..191

\* the length of the UTF-8 sequence that starts at position i, 0 when the
\* byte there starts no valid sequence (utf8.DecodeRune gives RuneError, 1)
RuneLen(s, i) ==
  IF s[i] < 128 THEN 1
  ELSE IF s[i] \in 194..223 THEN (IF Cont(At(s, i + 1)) THEN 2 ELSE 0)
  ELSE IF s[i] = 224
    THEN (IF At(s, i + 1) \in 160..191 /\ Cont(At(s, i + 2)) THEN 3 ELSE 0)
  ELSE IF s[i] = 237
    THEN (IF At(s, i + 1) \in 128..159 /\ Cont(At(s, i + 2)) THEN 3 ELSE 0)
  ELSE IF s[i] \in 225..239
    THEN (IF Cont(At(s, i + 1)) /\ Cont(At(s, i + 2)) THEN 3 ELSE 0)
  ELSE IF s[i] = 240
    THEN (IF At(s, i + 1) \in 144..191 /\ Cont(At(s, i + 2)) /\ Cont(At(s, i + 3))
            THEN 4 ELSE 0)
  ELSE IF s[i] \in 241..243
    THEN (IF Cont(At(s, i + 1)) /\ Cont(At(s, i + 2)) /\ Cont(At(s, i + 3))
            THEN 4 ELSE 0)
  ELSE IF s[i] = 244
    THEN (IF At(s, i + 1) \in 128..143 /\ Cont(At(s, i + 2)) /\ Cont(At(s, i + 3))
            THEN 4 ELSE 0)
  ELSE 0

\* U+FFFD in UTF-8
Replacement == <<239, 191, 189>>

\* utf8.EncodeRune: a surrogate half is written as U+FFFD
EncodeRune(r) ==
  IF r < 128 THEN <<r>>
  ELSE IF r < 2048 THEN <<192 + (r \div 64), 128 + (r % 64)>>
  ELSE IF r \in 55296..57343 THEN Replacement
  ELSE IF r < 65536
    THEN <<224 + (r \div 4096), 128 + ((r \div 64) % 64), 128 + (r % 64)>>
  ELSE <<240 + (r \div 262144), 128 + ((r \div 4096) % 64),
         128 + ((r \div 64) % 64), 128 + (r % 64)>>

\* getu4: the value of the four hex digits at position i, -1 when they are
\* not four hex digits
U4(toks, i) ==
  IF i + 3 <= Len(toks) /\ \A n \in 0..3 : IsHex(toks[i + n])
    THEN ((HexVal(toks[i]) * 16 + HexVal(toks[i + 1])) * 16 + HexVal(toks[i + 2])) * 16
         + HexVal(toks[i + 3])
    ELSE -1

\* the escapes of one letter and the byte each stands for
SimpleEscape ==
  (34 :> 34) @@ (92 :> 92) @@ (47 :> 47) @@ (98 :> 8) @@ (102 :> 12) @@ (110 :> 10)
  @@ (114 :> 13) @@ (116 :> 9)

Fail == [ok |-> FALSE, next |-> 0, val |-> [k |-> "none"]]

RECURSIVE SkipWS(_, _)
SkipWS(toks, i) ==
  IF i <= Len(toks) /\ IsWS(toks[i]) THEN SkipWS(toks, i + 1) ELSE i

RECURSIVE SkipDigits(_, _)
SkipDigits(toks, i) == IF IsDigit(At(toks, i)) THEN SkipDigits(toks, i + 1) ELSE i

\* a JSON number: the position after it, 0 when the bytes are no number
NumExpDigits(toks, i) == IF IsDigit(At(toks, i)) THEN SkipDigits(toks, i) ELSE 0

NumExp(toks, i) ==
  IF At(toks, i) \in {69, 101}
    THEN NumExpDigits(toks, IF At(toks, i + 1) \in {43, 45} THEN i + 2 ELSE i + 1)
    ELSE i

NumFrac(toks, i) ==
  IF At(toks, i) = 46
    THEN (IF IsDigit(At(toks, i + 1)) THEN NumExp(toks, SkipDigits(toks, i + 1)) ELSE 0)
    ELSE NumExp(toks, i)

NumInt(toks, i) ==
  IF At(toks, i) = 48 THEN NumFrac(toks, i + 1)
  ELSE IF At(toks, i) \in 49..57 THEN NumFrac(toks, SkipDigits(toks, i))
  ELSE 0

NumberEnd(toks, i) == NumInt(toks, IF At(toks, i) = 45 THEN i + 1 ELSE i)

\* a sorts before b as strings are compared: byte by byte from position i
RECURSIVE LessFrom(_, _, _)
LessFrom(a, b, i) ==
  IF i > Len(b) THEN FALSE
  ELSE IF i > Len(a) THEN TRUE
  ELSE IF a[i] # b[i] THEN a[i] < b[i]
  ELSE LessFrom(a, b, i + 1)

\* the decimal digits of 2^1024 - 2^970, the least number that
\* strconv.ParseFloat(s, 64) rounds to infinity (309 digits)
MaxFloatDigits ==
  <<1, 7, 9, 7, 6, 9, 3, 1, 3, 4, 8, 6, 2, 3, 1, 5, 8, 0, 7, 9, 3, 7, 2, 8,
     9, 7, 1, 4, 0, 5, 3, 0, 3, 4, 1, 5, 0, 7, 9, 9, 3, 4, 1, 3, 2, 7, 1, 0,
     0, 3, 7, 8, 2, 6, 9, 3, 6, 1, 7, 3, 7, 7, 8, 9, 8, 0, 4, 4, 4, 9, 6, 8,
     2, 9, 2, 7, 6, 4, 7, 5, 0, 9, 4, 6, 6, 4, 9, 0, 1, 7, 9, 7, 7, 5, 8, 7,
     2, 0, 7, 0, 9, 6, 3, 3, 0, 2, 8, 6, 4, 1, 6, 6, 9, 2, 8, 8, 7, 9, 1, 0,
     9, 4, 6, 5, 5, 5, 5, 4, 7, 8, 5, 1, 9, 4, 0, 4, 0, 2, 6, 3, 0, 6, 5, 7,
     4, 8, 8, 6, 7, 1, 5, 0, 5, 8, 2, 0, 6, 8, 1, 9, 0, 8, 9, 0, 2, 0, 0, 0,
     7, 0, 8, 3, 8, 3, 6, 7, 6, 2, 7, 3, 8, 5, 4, 8, 4, 5, 8, 1, 7, 7, 1, 1,
     5, 3, 1, 7, 6, 4, 4, 7, 5, 7, 3, 0, 2, 7, 0, 0, 6, 9, 8, 5, 5, 5, 7, 1,
     3, 6, 6, 9, 5, 9, 6, 2, 2, 8, 4, 2, 9, 1, 4, 8, 1, 9, 8, 6, 0, 8, 3, 4,
     9, 3, 6, 4, 7, 5, 2, 9, 2, 7, 1, 9, 0, 7, 4, 1, 6, 8, 4, 4, 4, 3, 6, 5,
     5, 1, 0, 7, 0, 4, 3, 4, 2, 7, 1, 1, 5, 5, 9, 6, 9, 9, 5, 0, 8, 0, 9, 3,
     0, 4, 2, 8, 8, 0, 1, 7, 7, 9, 0, 4, 1, 7, 4, 4, 9, 7, 7, 9, 2>>

\* the values of the digits at positions a..b-1
DigitsOf(toks, a, b) == [n \in 1..(b - a) |-> toks[a + n - 1] - 48]

RECURSIVE LeadingZeros(_, _)
LeadingZeros(d, i) ==
  IF i <= Len(d) /\ d[i] = 0 THEN LeadingZeros(d, i + 1) ELSE i - 1

\* the exponent the digits d write, from position i on, as strconv reads
\* it: a digit is taken in only while the number so far is below 10000
RECURSIVE DecimalOf(_, _, _)
DecimalOf(d, i, acc) ==
  IF i > Len(d) THEN acc
  ELSE DecimalOf(d, i + 1, IF acc < 10000 THEN acc * 10 + d[i] ELSE acc)

\* the number 0.d * 10^e, d having z leading zeros, is out of the range of
\* a float64
Overflows(d, z, e) ==
  IF z = Len(d) THEN FALSE
  ELSE IF e - z > 309 THEN TRUE
  ELSE IF e - z < 309 THEN FALSE
  ELSE ~LessFrom(SubSeq(d, z + 1, Len(d)), MaxFloatDigits, 1)

\* the written exponent of a number that ends before position end, fe being
\* the position after its fraction
ExpOf(toks, fe, end) ==
  IF fe = end THEN 0
  ELSE IF toks[fe + 1] = 45 THEN 0 - DecimalOf(DigitsOf(toks, fe + 2, end), 1, 0)
  ELSE IF toks[fe + 1] = 43 THEN DecimalOf(DigitsOf(toks, fe + 2, end), 1, 0)
  ELSE DecimalOf(DigitsOf(toks, fe + 1, end), 1, 0)

\* the digits before and after the point: s..ie-1 and ie+1..fe-1
NumDigits(toks, s, ie, fe) ==
  DigitsOf(toks, s, ie) \o (IF fe > ie THEN DigitsOf(toks, ie + 1, fe) ELSE <<>>)

FracEnd(toks, ie) == IF At(toks, ie) = 46 THEN SkipDigits(toks, ie + 1) ELSE ie

\* strconv keeps at most 800 digits of a number and takes the place of the
\* point from the number of digits kept before it
NumOverFrac(toks, s, ie, fe, end) ==
  Overflows(NumDigits(toks, s, ie, fe), LeadingZeros(NumDigits(toks, s, ie, fe), 1),
            (IF ie - s > 800 THEN 800 ELSE ie - s) + ExpOf(toks, fe, end))

NumOverInt(toks, s, ie, end) == NumOverFrac(toks, s, ie, FracEnd(toks, ie), end)

\* the integer part is one 0 or a run of digits
NumOverSign(toks, s, end) ==
  NumOverInt(toks, s, IF toks[s] = 48 THEN s + 1 ELSE SkipDigits(toks, s), end)

\* strconv.ParseFloat of the number at positions i..end-1 reports a range
\* error (the number does not fit a float64)
NumberOverflows(toks, i, end) ==
  NumOverSign(toks, IF toks[i] = 45 THEN i + 1 ELSE i, end)

NumberAt(toks, i, end) ==
  IF end = 0 THEN Fail
  ELSE [ok |-> TRUE, next |-> end,
        val |-> [k |-> "num", inf |-> NumberOverflows(toks, i, end)]]

RECURSIVE ParseStringBody(_, _, _)

\* an escape \uXXXX at position i, r being its value: a surrogate pair is one
\* character, a surrogate half alone becomes U+FFFD
UEscape(toks, i, acc, r) ==
  IF r = -1 THEN Fail
  ELSE IF /\ r \in 55296..56319
          /\ At(toks, i + 6) = 92 /\ At(toks, i + 7) = 117
          /\ U4(toks, i + 8) \in 56320..57343
    THEN ParseStringBody(toks, i + 12,
           acc \o EncodeRune(65536 + (r - 55296) * 1024 + (U4(toks, i + 8) - 56320)))
  ELSE ParseStringBody(toks, i + 6, acc \o EncodeRune(r))

\* a byte sequence as the decoder's unquote stores it: valid UTF-8 is copied,
\* a byte that starts no valid sequence becomes U+FFFD
Coerce(toks, i, acc, n) ==
  IF n = 0 THEN ParseStringBody(toks, i + 1, acc \o Replacement)
  ELSE ParseStringBody(toks, i + n, acc \o SubSeq(toks, i, i + n - 1))

\* the body of a JSON string, i being the position after the opening quote
ParseStringBody(toks, i, acc) ==
  IF i > Len(toks) THEN Fail
  ELSE IF toks[i] = 34
    THEN [ok |-> TRUE, next |-> i + 1, val |-> [k |-> "str", s |-> acc]]
  ELSE IF toks[i] = 92
    THEN IF At(toks, i + 1) \in DOMAIN SimpleEscape
           THEN ParseStringBody(toks, i + 2, Append(acc, SimpleEscape[toks[i + 1]]))
         ELSE IF At(toks, i + 1) = 117 THEN UEscape(toks, i, acc, U4(toks, i + 2))
         ELSE Fail
  ELSE IF toks[i] < 32 THEN Fail
  ELSE IF toks[i] < 128 THEN ParseStringBody(toks, i + 1, Append(acc, toks[i]))
  ELSE Coerce(toks, i, acc, RuneLen(toks, i))

\* the scanner of encoding/json gives up on an object or array nested
\* deeper than this
maxNestingDepth == 10000

RECURSIVE ParseValue(_, _, _)
RECURSIVE ParseElems(_, _, _, _)
RECURSIVE ParseMembers(_, _, _, _)

\* the value that starts at position i, which is not a blank, inside depth
\* open objects and arrays
ParseValueAt(toks, i, depth) ==
  IF i > Len(toks) THEN Fail
  ELSE IF toks[i] \in {123, 91} /\ depth + 1 > maxNestingDepth THEN Fail
  ELSE IF toks[i] = 123 THEN ParseMembers(toks, SkipWS(toks, i + 1), <<>>, depth + 1)
  ELSE IF toks[i] = 91 THEN ParseElems(toks, SkipWS(toks, i + 1), <<>>, depth + 1)
  ELSE IF toks[i] = 34 THEN ParseStringBody(toks, i + 1, <<>>)
  ELSE IF HasAt(toks, i, <<110, 117, 108, 108>>)
    THEN [ok |-> TRUE, next |-> i + 4, val |-> [k |-> "null"]]
  ELSE IF HasAt(toks, i, <<116, 114, 117, 101>>)
    THEN [ok |-> TRUE, next |-> i + 4, val |-> [k |-> "bool"]]
  ELSE IF HasAt(toks, i, <<102, 97, 108, 115, 101>>)
    THEN [ok |-> TRUE, next |-> i + 5, val |-> [k |-> "bool"]]
  ELSE NumberAt(toks, i, NumberEnd(toks, i))

ParseValue(toks, i, depth) == ParseValueAt(toks, SkipWS(toks, i), depth)

\* after an element r of an array: a comma and more elements, or the bracket
ElemsAfter(toks, r, j, acc, depth) ==
  IF j > Len(toks) THEN Fail
  ELSE IF toks[j] = 44 THEN ParseElems(toks, j + 1, Append(acc, r.val), depth)
  ELSE IF toks[j] = 93
    THEN [ok |-> TRUE, next |-> j + 1, val |-> [k |-> "arr", e |-> Append(acc, r.val)]]
  ELSE Fail

ElemsNext(toks, r, acc, depth) ==
  IF ~r.ok THEN Fail ELSE ElemsAfter(toks, r, SkipWS(toks, r.next), acc, depth)

\* the elements of an array from position i, acc holding those before; an
\* array may be empty only as a whole
ParseElems(toks, i, acc, depth) ==
  IF acc = <<>> /\ i <= Len(toks) /\ toks[i] = 93
    THEN [ok |-> TRUE, next |-> i + 1, val |-> [k |-> "arr", e |-> <<>>]]
    ELSE ElemsNext(toks, ParseValue(toks, i, depth), acc, depth)

\* after the member mem of an object: a comma and more members, or the brace
MembersAfter(toks, j, mem, depth) ==
  IF j > Len(toks) THEN Fail
  ELSE IF toks[j] = 44 THEN ParseMembers(toks, SkipWS(toks, j + 1), mem, depth)
  ELSE IF toks[j] = 125
    THEN [ok |-> TRUE, next |-> j + 1, val |-> [k |-> "obj", m |-> mem]]
  ELSE Fail

MemberValue(toks, key, v, acc, depth) ==
  IF ~v.ok THEN Fail
  ELSE MembersAfter(toks, SkipWS(toks, v.next),
                    Append(acc, [key |-> key.val.s, val |-> v.val]), depth)

MemberColon(toks, key, c, acc, depth) ==
  IF c > Len(toks) \/ toks[c] # 58 THEN Fail
  ELSE MemberValue(toks, key, ParseValue(toks, c + 1, depth), acc, depth)

MemberKey(toks, key, acc, depth) ==
  IF ~key.ok THEN Fail
  ELSE MemberColon(toks, key, SkipWS(toks, key.next), acc, depth)

\* the members of an object from position i (not a blank), acc holding those
\* before; an object may be empty only as a whole
ParseMembers(toks, i, acc, depth) ==
  IF acc = <<>> /\ i <= Len(toks) /\ toks[i] = 125
    THEN [ok |-> TRUE, next |-> i + 1, val |-> [k |-> "obj", m |-> <<>>]]
  ELSE IF i > Len(toks) \/ toks[i] # 34 THEN Fail
  ELSE MemberKey(toks, ParseStringBody(toks, i + 1, <<>>), acc, depth)

WholeInput(toks, r) ==
  IF r.ok /\ SkipWS(toks, r.next) = Len(toks) + 1 THEN r ELSE Fail

\* one JSON value surrounded by optional blanks, and nothing else
ParseJSON(toks) == WholeInput(toks, ParseValue(toks, 1, 0))

\* the value holds a number that does not fit a float64: stored into an
\* interface{}, it makes Unmarshal return an UnmarshalTypeError
RECURSIVE HasRangeError(_)
HasRangeError(v) ==
  IF v.k = "num" THEN v.inf
  ELSE IF v.k = "arr" THEN \E n \in 1..Len(v.e) : HasRangeError(v.e[n])
  ELSE IF v.k = "obj" THEN \E n \in 1..Len(v.m) : HasRangeError(v.m[n].val)
  ELSE FALSE

MapErrOf(r) == ~r.ok \/ r.val.k \notin {"obj", "null"} \/ HasRangeError(r.val)

\* json.Unmarshal(data, &map[string]interface{}): the error result
UnmarshalMapErr(toks) == MapErrOf(ParseJSON(toks))

\* a JSON string or null stored into a Go string: the unquoted string, "" for
\* null
ElemString(v) == IF v.k = "str" THEN v.s ELSE <<>>

TagsOf(r) ==
  IF ~r.ok THEN [err |-> TRUE, nil |-> TRUE, v |-> <<>>]
  ELSE IF r.val.k = "null" THEN [err |-> FALSE, nil |-> TRUE, v |-> <<>>]
  ELSE IF r.val.k # "arr" THEN [err |-> TRUE, nil |-> TRUE, v |-> <<>>]
  ELSE [err |-> \E n \in 1..Len(r.val.e) : r.val.e[n].k \notin {"str", "null"},
        nil |-> FALSE,
        v   |-> [n \in 1..Len(r.val.e) |-> ElemString(r.val.e[n])]]

\* json.Unmarshal(data, &[]string)
UnmarshalTags(toks) == TagsOf(ParseJSON(toks))

\* a map[string]string with no entry
EmptyMap == [key \in {} |-> <<>>]

\* the last member of the object's members mem that has the key
LastWith(mem, key) ==
  CHOOSE n \in 1..Len(mem) :
    /\ mem[n].key = key
    /\ \A j \in 1..Len(mem) : mem[j].key = key => j <= n

\* the Go map the members of a JSON object are stored into, one after the
\* other: a key written twice keeps its last value
MapOf(mem) ==
  [key \in { mem[n].key : n \in 1..Len(mem) } |->
     ElemString(mem[LastWith(mem, key)].val)]

LabelsOf(r) ==
  IF ~r.ok THEN [err |-> TRUE, nil |-> TRUE, v |-> EmptyMap]
  ELSE IF r.val.k = "null" THEN [err |-> FALSE, nil |-> TRUE, v |-> EmptyMap]
  ELSE IF r.val.k # "obj" THEN [err |-> TRUE, nil |-> TRUE, v |-> EmptyMap]
  ELSE [err |-> \E n \in 1..Len(r.val.m) : r.val.m[n].val.k \notin {"str", "null"},
        nil |-> FALSE,
        v   |-> MapOf(r.val.m)]

\* json.Unmarshal(data, &map[string]string)
UnmarshalLabels(toks) == LabelsOf(ParseJSON(toks))

\* json.Marshal of one byte below 128 of a Go string: quote and backslash
\* get a backslash, \b \f \n \r \t their letter, every other control
\* character and < > & the escape \u00XX
EscapeByte(b) ==
  IF b \in {34, 92} THEN <<92, b>>
  ELSE IF b = 8 THEN <<92, 98>>
  ELSE IF b = 12 THEN <<92, 102>>
  ELSE IF b = 10 THEN <<92, 110>>
  ELSE IF b = 13 THEN <<92, 114>>
  ELSE IF b = 9 THEN <<92, 116>>
  ELSE IF b < 32 \/ b \in {60, 62, 38}
    THEN <<92, 117, 48, 48, HexDigit(b \div 16), HexDigit(b % 16)>>
  ELSE <<b>>

RECURSIVE EscapeFrom(_, _)

\* the sequence of n bytes at position i, which is above 127: a byte that
\* starts no valid UTF-8 is written as \ufffd, U+2028 and U+2029 as their
\* escapes, any other character as it is
EscapeRune(s, i, n) ==
  IF n = 0 THEN <<92, 117, 102, 102, 102, 100>> \o EscapeFrom(s, i + 1)
  ELSE IF n = 3 /\ s[i] = 226 /\ s[i + 1] = 128 /\ s[i + 2] \in {168, 169}
    THEN <<92, 117, 50, 48, 50, s[i + 2] - 112>> \o EscapeFrom(s, i + 3)
  ELSE SubSeq(s, i, i + n - 1) \o EscapeFrom(s, i + n)

EscapeFrom(s, i) ==
  IF i > Len(s) THEN <<>>
  ELSE IF s[i] < 128 THEN EscapeByte(s[i]) \o EscapeFrom(s, i + 1)
  ELSE EscapeRune(s, i, RuneLen(s, i))

\* json.Marshal of a Go string
MarshalString(s) == <<34>> \o EscapeFrom(s, 1) \o <<34>>

RECURSIVE MarshalTagList(_)
MarshalTagList(v) ==
  IF v = <<>> THEN <<>>
  ELSE IF Len(v) = 1 THEN MarshalString(v[1])
  ELSE MarshalString(Head(v)) \o <<44>> \o MarshalTagList(Tail(v))

\* json.Marshal of a []string: null for a nil slice
MarshalTags(t) ==
  IF t.nil THEN <<110, 117, 108, 108>> ELSE <<91>> \o MarshalTagList(t.v) \o <<93>>

\* the key of S that sorts before the others
MinKey(S) == CHOOSE k \in S : \A j \in S \ {k} : LessFrom(k, j, 1)

\* the keys of a map in the order json.Marshal writes them: sorted
RECURSIVE SortedKeys(_)
SortedKeys(S) ==
  IF S = {} THEN <<>> ELSE <<MinKey(S)>> \o SortedKeys(S \ {MinKey(S)})

\* the entries of the map v for the keys, in that order
RECURSIVE MarshalLabelList(_, _)
MarshalLabelList(v, keys) ==
  IF keys = <<>> THEN <<>>
  ELSE MarshalString(Head(keys)) \o <<58>> \o MarshalString(v[Head(keys)])
       \o (IF Len(keys) = 1 THEN <<>> ELSE <<44>> \o MarshalLabelList(v, Tail(keys)))

\* json.Marshal of a map[string]string: null for a nil map, else the entries
\* sorted by key
MarshalLabels(l) ==
  IF l.nil THEN <<110, 117, 108, 108>>
  ELSE <<123>> \o MarshalLabelList(l.v, SortedKeys(DOMAIN l.v)) \o <<125>>

\* the names the struct tags of Message give its fields
\* "ecs.version"
FieldEcsVersion == <<101, 99, 115, 46, 118, 101, 114, 115, 105, 111, 110>>
\* "@timestamp"
FieldTimestamp == <<64, 116, 105, 109, 101, 115, 116, 97, 109, 112>>
\* "labels"
FieldLabels == <<108, 97, 98, 101, 108, 115>>
\* "tags"
FieldTags == <<116, 97, 103, 115>>
\* "message"
FieldMessage == <<109, 101, 115, 115, 97, 103, 101>>

\* json.Marshal(Message{...}) with the struct's field tags, in field order;
\* a time.Time is written as its RFC 3339 string
MarshalMessage(m) ==
  <<123>> \o MarshalString(FieldEcsVersion) \o <<58>> \o MarshalString(m.ECSVersion)
  \o <<44>> \o MarshalString(FieldTimestamp) \o <<58>> \o MarshalString(m.Timestamp)
  \o <<44>> \o MarshalString(FieldLabels) \o <<58>> \o MarshalLabels(m.Labels)
  \o <<44>> \o MarshalString(FieldTags) \o <<58>> \o MarshalTags(m.Tags)
  \o <<44>> \o MarshalString(FieldMessage) \o <<58>> \o MarshalString(m.Message)
  \o <<125>>

\* ------------------------------------------------------------------ inputs
\* texts are given as their bytes, the text itself in the comment above
Unset == [set |-> FALSE, val |-> <<>>]
Env(v) == [set |-> TRUE, val |-> v]

\* {"level":"info","msg":"hi"}
LineObj ==
  <<123, 34, 108, 101, 118, 101, 108, 34, 58, 34, 105, 110, 102, 111, 34, 44,
     34, 109, 115, 103, 34, 58, 34, 104, 105, 34, 125>>
\* {}
LineEmptyObj == <<123, 125>>
\* ' {"a":[1,null]} ' (a blank on either side)
LinePadded ==
  <<32, 123, 34, 97, 34, 58, 91, 49, 44, 110, 117, 108, 108, 93, 125, 32>>
\* plain text line
LinePlain ==
  <<112, 108, 97, 105, 110, 32, 116, 101, 120, 116, 32, 108, 105, 110, 101>>
\* null
LineNull == <<110, 117, 108, 108>>
\* 42
LineNum == <<52, 50>>
\* "s"
LineStr == <<34, 115, 34>>
\* [1]
LineArr == <<91, 49, 93>>
\* {"a":
LineTrunc == <<123, 34, 97, 34, 58>>
\* say "hi"
LineQuoted == <<115, 97, 121, 32, 34, 104, 105, 34>>
\* C:\tmp
LinePath == <<67, 58, 92, 116, 109, 112>>
\* {"a":"C:\tmp"} (an object whose string holds the escape \t)
LineObjPath == <<123, 34, 97, 34, 58, 34, 67, 58, 92, 116, 109, 112, 34, 125>>
\* {"a":"C:\dir"} (\d is no escape)
LineObjBadEscape ==
  <<123, 34, 97, 34, 58, 34, 67, 58, 92, 100, 105, 114, 34, 125>>
\* a<b
LineHtml == <<97, 60, 98>>
\* a, a tab, b
LineTab == <<97, 9, 98>>
\* caf followed by the byte FF, which is not valid UTF-8
LineBadUtf8 == <<99, 97, 102, 255>>
\* cafe with an acute accent, in UTF-8
LineUtf8 == <<99, 97, 102, 195, 169>>
\* 01
LineNumBad == <<48, 49>>
\* {"a":01}
LineObjNumBad == <<123, 34, 97, 34, 58, 48, 49, 125>>
\* {"a":[-0.5e+3,17e307,0.0e999,1E-999]}
LineObjNums ==
  <<123, 34, 97, 34, 58, 91, 45, 48, 46, 53, 101, 43, 51, 44, 49, 55, 101, 51,
     48, 55, 44, 48, 46, 48, 101, 57, 57, 57, 44, 49, 69, 45, 57, 57, 57, 93,
     125>>
\* {"a":1e999}
LineObjHuge == <<123, 34, 97, 34, 58, 49, 101, 57, 57, 57, 125>>
\* {"a":[0.18e309]}
LineObjOver ==
  <<123, 34, 97, 34, 58, 91, 48, 46, 49, 56, 101, 51, 48, 57, 93, 125>>
LineEmpty == <<>>

\* lines fed to Emit on its own
SampleLines ==
  { LineObj, LineEmptyObj, LinePadded, LinePlain, LineNull, LineNum, LineStr,
    LineArr, LineTrunc, LineQuoted, LinePath, LineObjPath, LineObjBadEscape,
    LineHtml, LineTab, LineBadUtf8, LineUtf8, LineNumBad, LineObjNumBad,
    LineObjNums, LineObjHuge, LineObjOver, LineEmpty }

\* what a reader of the scanner's buffer may see while Scan rewrites it:
\* the start of one line run into the start of another
\* plain te{"lev
LineTorn == <<112, 108, 97, 105, 110, 32, 116, 101, 123, 34, 108, 101, 118>>

\* the n-th line the child writes in the lifecycle model: structured and
\* plain lines in turn
ChildLine(n) == IF n % 2 = 1 THEN LineObj ELSE LinePlain

\* 2020-01-01T00:00:00Z
TimeA ==
  <<50, 48, 50, 48, 45, 48, 49, 45, 48, 49, 84, 48, 48, 58, 48, 48, 58, 48,
     48, 90>>
\* 2020-01-01T00:00:01Z
TimeB ==
  <<50, 48, 50, 48, 45, 48, 49, 45, 48, 49, 84, 48, 48, 58, 48, 48, 58, 48,
     49, 90>>

\* time.Now() as Emit on its own sees it
Timestamps == { TimeA, TimeB }

\* ["t1"]
TagsOne == <<91, 34, 116, 49, 34, 93>>
\* [1]
TagsBadElem == <<91, 49, 93>>
\* oops
TagsNotJSON == <<111, 111, 112, 115>>
\* ["\t1","\u00e9\ud83d\ude00\ud83d"] (a tab escape; e acute, a surrogate pair, a surrogate half)
TagsEscaped ==
  <<91, 34, 92, 116, 49, 34, 44, 34, 92, 117, 48, 48, 101, 57, 92, 117, 100,
     56, 51, 100, 92, 117, 100, 101, 48, 48, 92, 117, 100, 56, 51, 100, 34, 93>>
\* [" "] with the byte FF between the quotes
TagsBadUtf8 == <<91, 34, 255, 34, 93>>
\* {"app":"web"}
LabelsOne == <<123, 34, 97, 112, 112, 34, 58, 34, 119, 101, 98, 34, 125>>
\* {"app":1}
LabelsBadVal == <<123, 34, 97, 112, 112, 34, 58, 49, 125>>
\* {"app
LabelsNotJSON == <<123, 34, 97, 112, 112>>
\* {"b":"x","a":"y"}
LabelsTwo ==
  <<123, 34, 98, 34, 58, 34, 120, 34, 44, 34, 97, 34, 58, 34, 121, 34, 125>>
\* {"a":"x","a":"y"}
LabelsDup ==
  <<123, 34, 97, 34, 58, 34, 120, 34, 44, 34, 97, 34, 58, 34, 121, 34, 125>>
\* {"team":"x","level":"y","aa":"z","a b":"w"}
LabelsUnsorted ==
  <<123, 34, 116, 101, 97, 109, 34, 58, 34, 120, 34, 44, 34, 108, 101, 118,
     101, 108, 34, 58, 34, 121, 34, 44, 34, 97, 97, 34, 58, 34, 122, 34, 44,
     34, 97, 32, 98, 34, 58, 34, 119, 34, 125>>
\* null
Null == <<110, 117, 108, 108>>

TagsEnvs ==
  { Unset, Env(TagsOne), Env(Null), Env(TagsBadElem), Env(TagsNotJSON),
    Env(TagsBadUtf8), Env(TagsEscaped) }
LabelsEnvs ==
  { Unset, Env(LabelsOne), Env(Null), Env(LabelsBadVal), Env(LabelsNotJSON),
    Env(LabelsTwo), Env(LabelsDup), Env(LabelsUnsorted) }

\* the environments of the lifecycle model ("" is an unset variable)
LifeTagsEnvs == { Unset, Env(TagsBadElem), Env(TagsNotJSON) }
LifeLabelsEnvs == { Env(LabelsOne), Env(LabelsBadVal), Env(LabelsNotJSON) }
LifeEmitterEnvs == { "", "nosuch" }

\* time.Now() as the lifecycle model sees it
LifeTimestamps == { TimeA }

Signals == { "SIGHUP", "SIGINT", "SIGTERM", "SIGKILL" }

\* the names the emitters package registers at load time
RegisteredEmitters == { "stderr" }

\* ------------------------------------------------------------------- state
VARIABLES
  env,          \* HABERDASHER_TAGS, HABERDASHER_LABELS, HABERDASHER_EMITTER
  Emitters,     \* logging.Emitters: the registry, emitter type -> Emitter
  proc,         \* the supervisor process: running, or how it ended
  mainPc,       \* position of init()/main()
  defaultTags, defaultLabels,
  emitter,      \* main's emitter: "nil" or a registered name
  reaper,       \* go reaper.Reap() started
  subcmdPid,
  notified,     \* signal.Notify done
  signalChan,
  budget,       \* what the environment may still do: signals to raise; lines of the
                \* child that main has not read yet (written already or still to
                \* be written: one in the pipe outlives the child's stderr);
                \* and the number of catchable signals raised after signal.Notify
  relay,        \* the signalHandler goroutine
  killLog,      \* syscall.Kill calls issued
  child,        \* the subprocess
  lines,        \* the lines Scan has returned, in order
  scanner,      \* bufio.Scanner: its current token
  tasks,        \* one goroutine per line read
  sink,         \* calls received by the Emitter
  ePc, eEnv, eLine, eOut   \* Emit applied to one line on its own

lifeVars ==
  << env, Emitters, proc, mainPc, defaultTags, defaultLabels, emitter, reaper, subcmdPid,
     notified, signalChan, budget, relay, killLog, child, lines, scanner, tasks,
     sink >>
emitVars == << ePc, eEnv, eLine, eOut >>
vars == << lifeVars, emitVars >>

NilTags == [nil |-> TRUE, v |-> <<>>]
NilLabels == [nil |-> TRUE, v |-> EmptyMap]

Running == proc.status = "running"
Exit(code, by) == [status |-> "exited", code |-> code, by |-> by]

\* --------------------------------------------------------- logging/emit.go
\* "[]" and "{}" stand in for a variable that is not set
TagsFromEnv(e) == IF e.tags.set THEN e.tags.val ELSE <<91, 93>>
LabelsFromEnv(e) == IF e.labels.set THEN e.labels.val ELSE <<123, 125>>

\* what init() leaves when t and l are the results of the two Unmarshal calls
InitResult(t, l) ==
  IF t.err THEN [fatal |-> TRUE, tags |-> NilTags, labels |-> NilLabels]
  ELSE IF l.err THEN [fatal |-> TRUE, tags |-> [nil |-> t.nil, v |-> t.v], labels |-> NilLabels]
  ELSE [fatal |-> FALSE, tags |-> [nil |-> t.nil, v |-> t.v],
        labels |-> [nil |-> l.nil, v |-> l.v]]

InitResultLenient(t, l) ==
  [fatal |-> FALSE, tags |-> [nil |-> t.nil, v |-> t.v],
   labels |-> [nil |-> l.nil, v |-> l.v]]

\* init() with the Unmarshal errors ignored
LoggingInitLenient(e) ==
  InitResultLenient(UnmarshalTags(TagsFromEnv(e)), UnmarshalLabels(LabelsFromEnv(e)))

\* init(): what the two Unmarshal calls leave, and whether log.Fatal is hit
LoggingInit(e) ==
  InitResult(UnmarshalTags(TagsFromEnv(e)), UnmarshalLabels(LabelsFromEnv(e)))

\* Emit, up to the call of HandleLogMessage: the bytes it will hand over
Emit(logMessage, now, tags, labels) ==
  IF UnmarshalMapErr(logMessage)
    THEN MarshalMessage([ECSVersion |-> defaultEcsVersion, Timestamp |-> now,
                         Labels |-> labels, Tags |-> tags, Message |-> logMessage])
    ELSE logMessage

\* ----------------------------------------------------------------- main.go
\* the switch with the SIGINT case assigning SIGTERM
MapSignalSwapped(signalReceived, cur) ==
  CASE signalReceived = "SIGHUP"  -> "SIGHUP"
    [] signalReceived = "SIGINT"  -> "SIGTERM"
    [] signalReceived = "SIGTERM" -> "SIGTERM"
    [] signalReceived = "SIGKILL" -> "SIGKILL"
    [] OTHER -> cur

\* the switch of signalHandler: the signal to forward, cur being the value
\* signalToSendChild holds when no case matches
MapSignal(signalReceived, cur) ==
  CASE signalReceived = "SIGHUP"  -> "SIGHUP"
    [] signalReceived = "SIGINT"  -> "SIGINT"
    [] signalReceived = "SIGTERM" -> "SIGTERM"
    [] signalReceived = "SIGKILL" -> "SIGKILL"
    [] OTHER -> cur

LifeInit(b, envs) ==
  /\ env \in envs
  /\ Emitters = [emitterType \in {} |-> "nil"]
  /\ proc = [status |-> "running", code |-> 0, by |-> "none"]
  /\ mainPc = "init"
  /\ defaultTags = NilTags
  /\ defaultLabels = NilLabels
  /\ emitter = "nil"
  /\ reaper = FALSE
  /\ subcmdPid = Sentinel
  /\ notified = FALSE
  /\ signalChan = <<>>
  /\ budget = b
  /\ relay = [pc |-> "none", signalReceived |-> "none", signalToSendChild |-> "SIGHUP",
              cleanupErr |-> FALSE]
  /\ killLog = <<>>
  /\ child = [state |-> "none", status |-> 0]
  /\ lines = <<>>
  /\ scanner = [token |-> <<>>]
  /\ tasks = <<>>
  /\ sink = [setupCalls |-> 0, setupDone |-> FALSE, cleanupCalls |-> 0,
             cleanupDone |-> FALSE, cleanupLog |-> <<>>, delivered |-> <<>>,
             errLogged |-> FALSE]

LifeEnvs == [tags : LifeTagsEnvs, labels : LifeLabelsEnvs, emitter : LifeEmitterEnvs]

EmitIdle ==
  /\ ePc = "off"
  /\ eEnv = [tags |-> Unset, labels |-> Unset]
  /\ eLine = <<>>
  /\ eOut = [bytes |-> <<>>, delivered |-> <<>>, tags |-> NilTags, labels |-> NilLabels]

InitWith(b) == LifeInit(b, LifeEnvs) /\ EmitIdle

\* the child writes at most MaxLines lines and at most MaxSignals signals arrive
Init == InitWith([signals |-> MaxSignals, lines |-> MaxLines, caught |-> 0])

\* no signal arrives and the child writes at most MaxBurst lines
InitQuiet == InitWith([signals |-> 0, lines |-> MaxBurst, caught |-> 0])

\* logging.init(), run before main: emit.go 18-35
InitOutcome(r) ==
  IF r.fatal
    THEN /\ proc' = Exit(1, "fatal-config")
         /\ UNCHANGED << mainPc, defaultTags, defaultLabels >>
    ELSE /\ mainPc' = "register"
         /\ defaultTags' = r.tags
         /\ defaultLabels' = r.labels
         /\ UNCHANGED proc

MainLoggingInit ==
  /\ Running /\ mainPc = "init"
  /\ InitOutcome(LoggingInit(env))
  /\ UNCHANGED << env, Emitters, emitter, reaper, subcmdPid, notified, signalChan, budget,
                  relay, killLog, child, lines, scanner, tasks, sink, emitVars >>

\* emit.go 58-60: Register(emitterType, emitter)
Register(emitterType, e) ==
  Emitters' = [n \in DOMAIN Emitters \cup {emitterType} |->
                 IF n = emitterType THEN e ELSE Emitters[n]]

\* the init() of the emitters package, run after logging's and before main:
\* it registers each of its emitters under its name
LoadEmitters ==
  /\ Running /\ mainPc = "register"
  /\ \E emitterType \in RegisteredEmitters \ DOMAIN Emitters :
       /\ Register(emitterType, emitterType)
       /\ mainPc' = IF RegisteredEmitters \subseteq DOMAIN Emitters \cup {emitterType}
                      THEN "resolve" ELSE "register"
  /\ UNCHANGED << env, proc, defaultTags, defaultLabels, emitter, reaper, subcmdPid,
                  notified, signalChan, budget, relay, killLog, child, lines, scanner,
                  tasks, sink, emitVars >>

\* main.go 47-50: the configured name, "stderr" when the variable is unset
EmitterName == IF env.emitter = "" THEN "stderr" ELSE env.emitter

\* main.go 52: the registry lookup yields nil for an unknown name
MainResolve ==
  /\ Running /\ mainPc = "resolve"
  /\ emitter' = IF EmitterName \in DOMAIN Emitters THEN Emitters[EmitterName] ELSE "nil"
  /\ mainPc' = "reap"
  /\ UNCHANGED << env, Emitters, proc, defaultTags, defaultLabels, reaper, subcmdPid, notified,
                  signalChan, budget, relay, killLog, child, lines, scanner, tasks,
                  sink, emitVars >>

\* main.go 55-61: start the reaper, set the pid sentinel, register the signals
MainNotify ==
  /\ Running /\ mainPc = "reap"
  /\ reaper' = TRUE
  /\ subcmdPid' = Sentinel
  /\ signalChan' = <<>>
  /\ notified' = TRUE
  /\ mainPc' = "goRelay"
  /\ UNCHANGED << env, Emitters, proc, defaultTags, defaultLabels, emitter, budget, relay,
                  killLog, child, lines, scanner, tasks, sink, emitVars >>

\* main.go 62: go signalHandler(&subcmdPid, emitter, signalChan)
MainGoRelay ==
  /\ Running /\ mainPc = "goRelay"
  /\ relay' = [relay EXCEPT !.pc = "recv"]
  /\ mainPc' = "setup"
  /\ UNCHANGED << env, Emitters, proc, defaultTags, defaultLabels, emitter, reaper, subcmdPid,
                  notified, signalChan, budget, killLog, child, lines, scanner, tasks,
                  sink, emitVars >>

\* main without the Setup call
MainSetupSkipped ==
  /\ Running /\ mainPc = "setup"
  /\ mainPc' = "pipe"
  /\ UNCHANGED << env, Emitters, proc, defaultTags, defaultLabels, emitter, reaper, subcmdPid,
                  notified, signalChan, budget, relay, killLog, child, lines, scanner,
                  tasks, sink, emitVars >>

\* main.go 65: emitter.Setup() is entered; on a nil emitter the call panics
MainSetupCall ==
  /\ Running /\ mainPc = "setup"
  /\ IF emitter = "nil"
       THEN /\ proc' = Exit(2, "panic-setup")
            /\ UNCHANGED << mainPc, sink >>
       ELSE /\ sink' = [sink EXCEPT !.setupCalls = @ + 1]
            /\ mainPc' = "inSetup"
            /\ UNCHANGED proc
  /\ UNCHANGED << env, Emitters, defaultTags, defaultLabels, emitter, reaper, subcmdPid, notified,
                  signalChan, budget, relay, killLog, child, lines, scanner, tasks,
                  emitVars >>

\* main.go 65: emitter.Setup() returns
MainSetupReturn ==
  /\ Running /\ mainPc = "inSetup"
  /\ sink' = [sink EXCEPT !.setupDone = TRUE]
  /\ mainPc' = "pipe"
  /\ UNCHANGED << env, Emitters, proc, defaultTags, defaultLabels, emitter, reaper, subcmdPid,
                  notified, signalChan, budget, relay, killLog, child, lines, scanner,
                  tasks, emitVars >>

\* main.go 67-72: subcmd.StderrPipe() returns, with an error or without
MainStderrPipe ==
  /\ Running /\ mainPc = "pipe"
  /\ \E err \in BOOLEAN : mainPc' = IF err THEN "pipeFatal" ELSE "start"
  /\ UNCHANGED << env, Emitters, proc, defaultTags, defaultLabels, emitter, reaper, subcmdPid,
                  notified, signalChan, budget, relay, killLog, child, lines, scanner,
                  tasks, sink, emitVars >>

\* main.go 73-75: log.Fatal(err) after the failed StderrPipe: os.Exit(1)
MainPipeFatal ==
  /\ Running /\ mainPc = "pipeFatal"
  /\ proc' = Exit(1, "fatal-pipe")
  /\ UNCHANGED << env, Emitters, mainPc, defaultTags, defaultLabels, emitter, reaper, subcmdPid,
                  notified, signalChan, budget, relay, killLog, child, lines, scanner,
                  tasks, sink, emitVars >>

\* main logging the error of subcmd.Start() and going on
MainStartContinues ==
  /\ Running /\ mainPc = "start"
  /\ \E err \in BOOLEAN :
       /\ child' = [child EXCEPT !.state = IF err THEN "failed" ELSE "running"]
       /\ mainPc' = "recordPid"
  /\ UNCHANGED << env, Emitters, proc, defaultTags, defaultLabels, emitter, reaper, subcmdPid,
                  notified, signalChan, budget, relay, killLog, lines, scanner, tasks,
                  sink, emitVars >>

\* main.go 78: subcmd.Start() returns: the child runs, or the call failed
\* and there is no child
MainStart ==
  /\ Running /\ mainPc = "start"
  /\ \E err \in BOOLEAN :
       IF err THEN /\ child' = [child EXCEPT !.state = "failed"]
                   /\ mainPc' = "startFatal"
              ELSE /\ child' = [child EXCEPT !.state = "running"]
                   /\ mainPc' = "recordPid"
  /\ UNCHANGED << env, Emitters, proc, defaultTags, defaultLabels, emitter, reaper, subcmdPid,
                  notified, signalChan, budget, relay, killLog, lines, scanner, tasks,
                  sink, emitVars >>

\* main.go 78-80: log.Fatal(err) after the failed Start: os.Exit(1)
MainStartFatal ==
  /\ Running /\ mainPc = "startFatal"
  /\ proc' = Exit(1, "fatal-start")
  /\ UNCHANGED << env, Emitters, mainPc, defaultTags, defaultLabels, emitter, reaper, subcmdPid,
                  notified, signalChan, budget, relay, killLog, child, lines, scanner,
                  tasks, sink, emitVars >>

\* main.go 81: subcmdPid = subcmd.Process.Pid
MainRecordPid ==
  /\ Running /\ mainPc = "recordPid"
  /\ subcmdPid' = ChildPid
  /\ mainPc' = "scan"
  /\ UNCHANGED << env, Emitters, proc, defaultTags, defaultLabels, emitter, reaper, notified,
                  signalChan, budget, relay, killLog, child, lines, scanner, tasks,
                  sink, emitVars >>

\* main.go 83-87: scanner.Scan() returns the next line the child has written
\* and a goroutine is started for it (the closure takes no argument: it calls
\* scanner.Text() when it runs); a line the child wrote before it closed its
\* stderr or exited is still in the pipe and is read after that, and so is
\* a last line without a newline.  Or Scan() returns false, which leaves the
\* token empty and ends the loop: at end-of-stream, and also, with the child
\* running and its stderr open, on a line too long for the buffer
\* (bufio.ErrTooLong) or a read error; main never looks at scanner.Err()
MainScan ==
  /\ Running /\ mainPc = "scan"
  /\ \/ /\ child.state \in {"running", "closed", "exited"} /\ budget.lines > 0
        /\ budget' = [budget EXCEPT !.lines = @ - 1]
        /\ lines' = Append(lines, ChildLine(Len(lines) + 1))
        /\ scanner' = [token |-> ChildLine(Len(lines) + 1)]
        /\ tasks' = Append(tasks, [pc |-> "start", arg |-> <<>>, bytes |-> <<>>])
        /\ UNCHANGED mainPc
     \/ /\ child.state \in {"running", "closed", "exited"}
        /\ scanner' = [token |-> <<>>]
        /\ mainPc' = "return"
        /\ UNCHANGED << tasks, lines, budget >>
  /\ UNCHANGED << env, Emitters, proc, defaultTags, defaultLabels, emitter, reaper, subcmdPid,
                  notified, signalChan, relay, killLog, child, sink,
                  emitVars >>

\* main returning only once every dispatched task has finished
MainReturnWaits ==
  /\ Running /\ mainPc = "return"
  /\ \A i \in 1..Len(tasks) : tasks[i].pc = "done"
  /\ proc' = Exit(0, "eof")
  /\ UNCHANGED << env, Emitters, mainPc, defaultTags, defaultLabels, emitter, reaper, subcmdPid,
                  notified, signalChan, budget, relay, killLog, child, lines, scanner,
                  tasks, sink, emitVars >>

\* main.go 88: main returns and the process ends with status 0
MainReturn ==
  /\ Running /\ mainPc = "return"
  /\ proc' = Exit(0, "eof")
  /\ UNCHANGED << env, Emitters, mainPc, defaultTags, defaultLabels, emitter, reaper, subcmdPid,
                  notified, signalChan, budget, relay, killLog, child, lines, scanner,
                  tasks, sink, emitVars >>

\* the overwritten bytes the model follows
TornTexts == { LineTorn }

\* scanner.Text() called from the goroutine of line i.  The call is not
\* synchronised with main, which is back inside Scan() as soon as it has
\* started the goroutine: the goroutine sees the token the scanner holds at
\* that moment (its own line, a later one, or none after the end of the
\* stream), or no token because Scan cleared it on an unfinished line, or
\* bytes of a buffer Scan is shifting and refilling
ScannerText(i) == { scanner.token, <<>> } \cup TornTexts

\* the texts a goroutine of the lifecycle model can read
LifeTexts == { ChildLine(1), ChildLine(2), <<>> } \cup TornTexts

\* Emit on each of them with each of the defaults init() can leave there,
\* worked out once
EmitTable ==
  { [logMessage |-> t, now |-> n, tags |-> d.tags, labels |-> d.labels,
     bytes |-> Emit(t, n, d.tags, d.labels)] :
      t \in LifeTexts, n \in LifeTimestamps,
      d \in { LoggingInit(e) : e \in [tags : LifeTagsEnvs, labels : LifeLabelsEnvs] } }

\* Emit(logMessage, now, tags, labels), read from the table
EmitOf(logMessage, now, tags, labels) ==
  (CHOOSE r \in EmitTable :
     /\ r.logMessage = logMessage /\ r.now = now
     /\ r.tags = tags /\ r.labels = labels).bytes

\* main.go 84-86 and emit.go 66-73: the goroutine evaluates scanner.Text() and
\* Emit classifies the result
TaskEmit(i) ==
  /\ Running /\ tasks[i].pc = "start"
  /\ \E text \in ScannerText(i), now \in LifeTimestamps :
       tasks' = [tasks EXCEPT ![i] =
                   [@ EXCEPT !.pc = "classified", !.arg = text,
                             !.bytes = EmitOf(text, now, defaultTags, defaultLabels)]]
  /\ UNCHANGED << env, Emitters, proc, mainPc, defaultTags, defaultLabels, emitter, reaper,
                  subcmdPid, notified, signalChan, budget, relay, killLog, child, lines,
                  scanner, sink, emitVars >>

\* Emit handing its bytes to the sink whether or not it has classified them
TaskHandleCallEarly(i) ==
  /\ Running /\ tasks[i].pc \in {"start", "classified"}
  /\ emitter # "nil"
  /\ sink' = [sink EXCEPT !.delivered =
                 Append(@, [task |-> i, bytes |-> tasks[i].bytes,
                            setupCalls |-> sink.setupCalls,
                            setupDone |-> sink.setupDone,
                            cleanupCalls |-> sink.cleanupCalls])]
  /\ tasks' = [tasks EXCEPT ![i].pc = "delivering"]
  /\ UNCHANGED << env, Emitters, proc, mainPc, defaultTags, defaultLabels, emitter, reaper,
                  subcmdPid, notified, signalChan, budget, relay, killLog, child, lines,
                  scanner, emitVars >>

\* emit.go 74: emitter.HandleLogMessage(messageToEmit) is entered
TaskHandleCall(i) ==
  /\ Running /\ tasks[i].pc = "classified"
  /\ IF emitter = "nil"
       THEN /\ proc' = Exit(2, "panic-handle")
            /\ UNCHANGED << tasks, sink >>
       ELSE /\ sink' = [sink EXCEPT !.delivered =
                          Append(@, [task |-> i, bytes |-> tasks[i].bytes,
                                     setupCalls |-> sink.setupCalls,
                                     setupDone |-> sink.setupDone,
                                     cleanupCalls |-> sink.cleanupCalls])]
            /\ tasks' = [tasks EXCEPT ![i].pc = "delivering"]
            /\ UNCHANGED proc
  /\ UNCHANGED << env, Emitters, mainPc, defaultTags, defaultLabels, emitter, reaper, subcmdPid,
                  notified, signalChan, budget, relay, killLog, child, lines, scanner,
                  emitVars >>

\* Emit ending the process when HandleLogMessage reports an error
TaskHandleReturnFatal(i) ==
  /\ Running /\ tasks[i].pc = "delivering"
  /\ \E err \in BOOLEAN :
       /\ sink' = [sink EXCEPT !.errLogged = @ \/ err]
       /\ proc' = IF err THEN Exit(1, "fatal-deliver") ELSE proc
  /\ tasks' = [tasks EXCEPT ![i].pc = "done"]
  /\ UNCHANGED << env, Emitters, mainPc, defaultTags, defaultLabels, emitter, reaper,
                  subcmdPid, notified, signalChan, budget, relay, killLog, child, lines,
                  scanner, emitVars >>

\* emit.go 74-76: HandleLogMessage returns; an error is logged and dropped
TaskHandleReturn(i) ==
  /\ Running /\ tasks[i].pc = "delivering"
  /\ \E err \in BOOLEAN :
       sink' = [sink EXCEPT !.errLogged = @ \/ err]
  /\ tasks' = [tasks EXCEPT ![i].pc = "done"]
  /\ UNCHANGED << env, Emitters, proc, mainPc, defaultTags, defaultLabels, emitter, reaper,
                  subcmdPid, notified, signalChan, budget, relay, killLog, child, lines,
                  scanner, emitVars >>

\* main.go 21-32: a signal is taken from the channel and mapped
RelayRecv ==
  /\ Running /\ relay.pc = "recv" /\ signalChan # <<>>
  /\ relay' = [relay EXCEPT !.pc = "kill", !.signalReceived = Head(signalChan),
               !.signalToSendChild = MapSignal(Head(signalChan), relay.signalToSendChild)]
  /\ signalChan' = Tail(signalChan)
  /\ UNCHANGED << env, Emitters, proc, mainPc, defaultTags, defaultLabels, emitter, reaper,
                  subcmdPid, notified, budget, killLog, child, lines, scanner, tasks,
                  sink, emitVars >>

\* the relay exiting right after the kill, without the teardown
RelayKillThenExit ==
  /\ Running /\ relay.pc = "kill"
  /\ killLog' = Append(killLog, [pid |-> subcmdPid, sig |-> relay.signalToSendChild,
                                 received |-> relay.signalReceived,
                                 recorded |-> mainPc \in {"scan", "return"},
                                 spawned |-> child.state # "none"])
  /\ relay' = [relay EXCEPT !.pc = "exit"]
  /\ UNCHANGED << env, Emitters, proc, mainPc, defaultTags, defaultLabels, emitter, reaper,
                  subcmdPid, notified, signalChan, budget, child, lines, scanner, tasks,
                  sink, emitVars >>

\* main.go 33-34: syscall.Kill(*pid, signalToSendChild), *pid read unsynchronised
RelayKill ==
  /\ Running /\ relay.pc = "kill"
  /\ killLog' = Append(killLog, [pid |-> subcmdPid, sig |-> relay.signalToSendChild,
                                 received |-> relay.signalReceived,
                                 recorded |-> mainPc \in {"scan", "return"},
                                 spawned |-> child.state # "none"])
  /\ relay' = [relay EXCEPT !.pc = "cleanup"]
  /\ UNCHANGED << env, Emitters, proc, mainPc, defaultTags, defaultLabels, emitter, reaper,
                  subcmdPid, notified, signalChan, budget, child, lines, scanner, tasks,
                  sink, emitVars >>

\* main.go 36: emitter.Cleanup() is entered; on a nil emitter the call panics
RelayCleanupCall ==
  /\ Running /\ relay.pc = "cleanup"
  /\ IF emitter = "nil"
       THEN /\ proc' = Exit(2, "panic-cleanup")
            /\ UNCHANGED << relay, sink >>
       ELSE /\ sink' = [sink EXCEPT !.cleanupCalls = @ + 1,
                                    !.cleanupLog = Append(@, [setupDone |-> sink.setupDone,
                                                              kills |-> Len(killLog)])]
            /\ relay' = [relay EXCEPT !.pc = "inCleanup"]
            /\ UNCHANGED proc
  /\ UNCHANGED << env, Emitters, mainPc, defaultTags, defaultLabels, emitter, reaper, subcmdPid,
                  notified, signalChan, budget, killLog, child, lines, scanner, tasks,
                  emitVars >>

\* the relay ending the process with a failure when Cleanup reports an error
RelayCleanupReturnStrict ==
  /\ Running /\ relay.pc = "inCleanup"
  /\ \E err \in BOOLEAN :
       /\ sink' = [sink EXCEPT !.cleanupDone = TRUE, !.errLogged = @ \/ err]
       /\ relay' = [relay EXCEPT !.pc = IF err THEN "inCleanup" ELSE "exit",
                                 !.cleanupErr = err]
       /\ proc' = IF err THEN Exit(1, "fatal-cleanup") ELSE proc
  /\ UNCHANGED << env, Emitters, mainPc, defaultTags, defaultLabels, emitter, reaper,
                  subcmdPid, notified, signalChan, budget, killLog, child, lines, scanner,
                  tasks, emitVars >>

\* main.go 36-38: Cleanup returns; an error is logged and dropped
RelayCleanupReturn ==
  /\ Running /\ relay.pc = "inCleanup"
  /\ \E err \in BOOLEAN :
       /\ sink' = [sink EXCEPT !.cleanupDone = TRUE, !.errLogged = @ \/ err]
       /\ relay' = [relay EXCEPT !.pc = "exit", !.cleanupErr = err]
  /\ UNCHANGED << env, Emitters, proc, mainPc, defaultTags, defaultLabels, emitter, reaper,
                  subcmdPid, notified, signalChan, budget, killLog, child, lines, scanner,
                  tasks, emitVars >>

\* the relay waiting for the child to exit before it ends the process
RelayExitWaitsChild ==
  /\ Running /\ relay.pc = "exit" /\ child.state \in {"none", "exited"}
  /\ proc' = Exit(0, "relay")
  /\ UNCHANGED << env, Emitters, mainPc, defaultTags, defaultLabels, emitter, reaper, subcmdPid,
                  notified, signalChan, budget, relay, killLog, child, lines, scanner,
                  tasks, sink, emitVars >>

\* main.go 39: os.Exit(0)
RelayExit ==
  /\ Running /\ relay.pc = "exit"
  /\ proc' = Exit(0, "relay")
  /\ UNCHANGED << env, Emitters, mainPc, defaultTags, defaultLabels, emitter, reaper, subcmdPid,
                  notified, signalChan, budget, relay, killLog, child, lines, scanner,
                  tasks, sink, emitVars >>

\* the environment raises a signal of the set named at main.go 61.  SIGKILL
\* cannot be caught and ends the process; before signal.Notify the default
\* disposition ends the process; afterwards the signal is put on the channel
\* unless its buffer (main.go 60) is full
SignalArrive(s) ==
  /\ Running /\ budget.signals > 0
  /\ budget' = [budget EXCEPT !.signals = @ - 1,
                              !.caught = IF notified /\ s # "SIGKILL" THEN @ + 1 ELSE @]
  /\ IF s = "SIGKILL"
       THEN proc' = Exit(137, "sigkill") /\ UNCHANGED signalChan
       ELSE IF ~notified
         THEN proc' = Exit(2, "signal") /\ UNCHANGED signalChan
         ELSE /\ signalChan' = IF Len(signalChan) < ChanCap
                                 THEN Append(signalChan, s) ELSE signalChan
              /\ UNCHANGED proc
  /\ UNCHANGED << env, Emitters, mainPc, defaultTags, defaultLabels, emitter, reaper, subcmdPid,
                  notified, relay, killLog, child, lines, scanner, tasks, sink,
                  emitVars >>

\* the child closes its stderr and keeps running
ChildCloseStderr ==
  /\ Running /\ child.state = "running"
  /\ child' = [child EXCEPT !.state = "closed"]
  /\ UNCHANGED << env, Emitters, proc, mainPc, defaultTags, defaultLabels, emitter, reaper,
                  subcmdPid, notified, signalChan, budget, relay, killLog, lines,
                  scanner, tasks, sink, emitVars >>

\* the child exits while the supervisor runs, which closes its stderr
ChildExit ==
  /\ Running /\ child.state \in {"running", "closed"}
  /\ \E st \in {0, 1} : child' = [state |-> "exited", status |-> st]
  /\ UNCHANGED << env, Emitters, proc, mainPc, defaultTags, defaultLabels, emitter, reaper,
                  subcmdPid, notified, signalChan, budget, relay, killLog, lines,
                  scanner, tasks, sink, emitVars >>

Next ==
  \/ MainLoggingInit
  \/ LoadEmitters
  \/ MainResolve
  \/ MainNotify
  \/ MainGoRelay
  \/ MainSetupCall
  \/ MainSetupReturn
  \/ MainStderrPipe
  \/ MainPipeFatal
  \/ MainStart
  \/ MainStartFatal
  \/ MainRecordPid
  \/ MainScan
  \/ MainReturn
  \/ \E i \in 1..Len(tasks) : TaskEmit(i)
  \/ \E i \in 1..Len(tasks) : TaskHandleCall(i)
  \/ \E i \in 1..Len(tasks) : TaskHandleReturn(i)
  \/ RelayRecv
  \/ RelayKill
  \/ RelayCleanupCall
  \/ RelayCleanupReturn
  \/ RelayExit
  \/ \E s \in Signals : SignalArrive(s)
  \/ ChildCloseStderr
  \/ ChildExit

Spec == Init /\ [][Next]_vars

\* the runs in which no termination signal arrives
NextQuiet ==
  \/ MainLoggingInit
  \/ LoadEmitters
  \/ MainResolve
  \/ MainNotify
  \/ MainGoRelay
  \/ MainSetupCall
  \/ MainSetupReturn
  \/ MainStderrPipe
  \/ MainPipeFatal
  \/ MainStart
  \/ MainStartFatal
  \/ MainRecordPid
  \/ MainScan
  \/ MainReturn
  \/ \E i \in 1..Len(tasks) : TaskEmit(i)
  \/ \E i \in 1..Len(tasks) : TaskHandleCall(i)
  \/ \E i \in 1..Len(tasks) : TaskHandleReturn(i)
  \/ ChildCloseStderr
  \/ ChildExit

SpecQuiet == InitQuiet /\ [][NextQuiet]_vars

\* the runs in which up to MaxSigBurst signals arrive and the child writes
\* nothing
InitBurst == InitWith([signals |-> MaxSigBurst, lines |-> 0, caught |-> 0])

NextBurst ==
  \/ MainLoggingInit
  \/ LoadEmitters
  \/ MainResolve
  \/ MainNotify
  \/ MainGoRelay
  \/ MainSetupCall
  \/ MainSetupReturn
  \/ MainStderrPipe
  \/ MainPipeFatal
  \/ MainStart
  \/ MainStartFatal
  \/ MainRecordPid
  \/ MainScan
  \/ MainReturn
  \/ RelayRecv
  \/ RelayKill
  \/ RelayCleanupCall
  \/ RelayCleanupReturn
  \/ RelayExit
  \/ \E s \in Signals : SignalArrive(s)
  \/ ChildCloseStderr
  \/ ChildExit

SpecBurst == InitBurst /\ [][NextBurst]_vars

\* the runs in which a single termination signal is raised and the child
\* writes at most MaxLiveLines lines
InitLive == InitWith([signals |-> 1, lines |-> MaxLiveLines, caught |-> 0])

\* signalHandler is a goroutine that never blocks after its receive: the
\* scheduler runs it, and the kill call and Cleanup are taken to return
RelayFairness ==
  WF_vars(RelayKill \/ RelayCleanupCall \/ RelayCleanupReturn \/ RelayExit)

SpecLive == InitLive /\ [][Next]_vars /\ RelayFairness

\* ------------------------------------------ Emit applied to one line alone
InitEmit ==
  /\ LifeInit([signals |-> 0, lines |-> 0, caught |-> 0],
              {[tags |-> Unset, labels |-> Unset, emitter |-> ""]})
  /\ ePc = "init"
  /\ eEnv \in [tags : TagsEnvs, labels : LabelsEnvs]
  /\ eLine \in SampleLines
  /\ eOut = [bytes |-> <<>>, delivered |-> <<>>, tags |-> NilTags, labels |-> NilLabels]

\* emit.go 18-35: the defaults are read from the environment
DefaultsOutcome(r) ==
  IF r.fatal
    THEN ePc' = "fatal" /\ UNCHANGED eOut
    ELSE /\ ePc' = "ready"
         /\ eOut' = [eOut EXCEPT !.tags = r.tags, !.labels = r.labels]

EmitLoadDefaults ==
  /\ ePc = "init"
  /\ DefaultsOutcome(LoggingInit(eEnv))
  /\ UNCHANGED << eEnv, eLine, lifeVars >>

\* emit.go 66-73: the line is classified
EmitClassify ==
  /\ ePc = "ready"
  /\ \E now \in Timestamps :
       eOut' = [eOut EXCEPT !.bytes = Emit(eLine, now, eOut.tags, eOut.labels)]
  /\ ePc' = "classified"
  /\ UNCHANGED << eEnv, eLine, lifeVars >>

\* emit.go 74: the bytes are handed to HandleLogMessage
EmitDeliver ==
  /\ ePc = "classified"
  /\ eOut' = [eOut EXCEPT !.delivered = eOut.bytes]
  /\ ePc' = "delivered"
  /\ UNCHANGED << eEnv, eLine, lifeVars >>

NextEmit == EmitLoadDefaults \/ EmitClassify \/ EmitDeliver

SpecEmit == InitEmit /\ [][NextEmit]_vars

\* ------------------------------------------------------------ the claims
\* the line is, as a whole, one JSON object (by the grammar of JSON, whatever
\* the size of the numbers in it)
IsObject(r) == r.ok /\ r.val.k = "obj"
IsJSONObject(l) == IsObject(ParseJSON(l))

\* the value of an object's member, [k |-> "none"] when it has none
Member(v, name) ==
  IF \E n \in 1..Len(v.m) : v.m[n].key = name
    THEN v.m[CHOOSE n \in 1..Len(v.m) : v.m[n].key = name].val
    ELSE [k |-> "none"]

IsString(v, s) == v.k = "str" /\ v.s = s

TagsAre(v, t) ==
  IF t.nil THEN v.k = "null"
  ELSE /\ v.k = "arr" /\ Len(v.e) = Len(t.v)
       /\ \A n \in 1..Len(t.v) : IsString(v.e[n], t.v[n])

LabelsAre(v, l) ==
  IF l.nil THEN v.k = "null"
  ELSE /\ v.k = "obj" /\ Len(v.m) = Cardinality(DOMAIN l.v)
       /\ \A n \in 1..Len(v.m) :
            /\ v.m[n].key \in DOMAIN l.v
            /\ IsString(v.m[n].val, l.v[v.m[n].key])

EnvelopeOf(r, message, tags, labels) ==
  /\ r.ok /\ r.val.k = "obj"
  /\ IsString(Member(r.val, FieldMessage), message)
  /\ IsString(Member(r.val, FieldEcsVersion), defaultEcsVersion)
  /\ Member(r.val, FieldTimestamp).k = "str"
  /\ TagsAre(Member(r.val, FieldTags), tags)
  /\ LabelsAre(Member(r.val, FieldLabels), labels)

\* bytes are a synthesized envelope around message, with the given defaults
IsEnvelope(bytes, message, tags, labels) ==
  EnvelopeOf(ParseJSON(bytes), message, tags, labels)

\* C1: a line that parses as a JSON object reaches the sink byte for byte
C1_PassThrough ==
  (ePc = "delivered" /\ IsJSONObject(eLine)) => eOut.delivered = eLine

\* C2: a line that is not a JSON object reaches the sink as an envelope whose
\* message is the line, with the fixed schema version and the default labels
\* and tags, and never verbatim
C2_WrapsEveryNonObject ==
  (ePc = "delivered" /\ ~IsJSONObject(eLine)) =>
     /\ IsEnvelope(eOut.delivered, eLine, eOut.tags, eOut.labels)
     /\ eOut.delivered # eLine

\* C3: once every dispatched task has finished, the sink has received one
\* record per line read, and the task of the i-th line classified and
\* delivered the i-th line
C3_EachTaskDeliversItsLine ==
  (tasks # <<>> /\ \A i \in 1..Len(tasks) : tasks[i].pc = "done") =>
     /\ Len(sink.delivered) = Len(lines)
     /\ \A i \in 1..Len(tasks) :
          /\ tasks[i].arg = lines[i]
          /\ \E n \in 1..Len(sink.delivered) :
               sink.delivered[n].task = i /\ sink.delivered[n].bytes = tasks[i].bytes

\* C4: the relay kills, then tears the sink down, then exits with status 0:
\* Cleanup is entered only after the kill, which carries the mapped signal
\* and goes to the pid main has recorded (the sentinel before that), and
\* os.Exit(0) is reached only after Cleanup has returned
C4_RelayOrder ==
  /\ \A n \in 1..Len(sink.cleanupLog) : sink.cleanupLog[n].kills = 1
  /\ relay.pc \in {"cleanup", "inCleanup", "exit"} =>
       /\ Len(killLog) = 1
       /\ killLog[1].sig = relay.signalToSendChild
       /\ killLog[1].pid = IF killLog[1].recorded THEN ChildPid ELSE Sentinel
  /\ relay.pc = "exit" => sink.cleanupCalls = 1 /\ sink.cleanupDone
  /\ proc.by = "relay" => proc.code = 0 /\ relay.pc = "exit"

\* the relay has ended the supervisor while the child still runs
C4_Witness ==
  /\ proc.by = "relay" /\ proc.code = 0 /\ child.state = "running"
  /\ killLog[1].pid = ChildPid /\ sink.cleanupDone

\* C5: the pid holds the sentinel until the child is spawned, and the relay
\* never issues a kill to the sentinel
C5_NoKillToSentinel ==
  /\ child.state = "none" => subcmdPid = Sentinel
  /\ \A n \in 1..Len(killLog) : killLog[n].pid # Sentinel

\* C6: every signal of the registered set is forwarded as itself
C6_SignalMappedOneToOne ==
  /\ \A s \in Signals, cur \in Signals : MapSignal(s, cur) = s
  /\ \A n \in 1..Len(killLog) : killLog[n].sig = killLog[n].received
  /\ relay.pc \in {"kill", "cleanup", "inCleanup", "exit"} =>
       relay.signalToSendChild = relay.signalReceived

C6_Witness ==
  killLog # <<>> /\ killLog[1].received = "SIGINT" /\ killLog[1].sig = "SIGINT"

\* C7: Setup is called once, never twice, and has returned before any
\* HandleLogMessage call begins
C7_SetupOnceBeforeDelivery ==
  /\ sink.setupCalls <= 1
  /\ mainPc \in {"pipe", "pipeFatal", "start", "startFatal", "recordPid", "scan",
               "return"} =>
       sink.setupCalls = 1 /\ sink.setupDone
  /\ \A n \in 1..Len(sink.delivered) :
       sink.delivered[n].setupCalls = 1 /\ sink.delivered[n].setupDone

C7_Witness ==
  sink.delivered # <<>> /\ sink.setupCalls = 1 /\ sink.setupDone

\* C8: a run ended by the relay or by end-of-stream has called Cleanup
\* exactly once
C8_CleanupOnceOnShutdown ==
  /\ sink.cleanupCalls <= 1
  /\ proc.by \in {"relay", "eof"} => sink.cleanupCalls = 1

\* the configuration init() must reject
MalformedConfig ==
  \/ env.tags \in { Env(TagsBadElem), Env(TagsNotJSON) }
  \/ env.labels \in { Env(LabelsBadVal), Env(LabelsNotJSON) }

\* C9: with malformed tags or labels the process never gets past init(): no
\* child, no Setup, no delivery, and it ends with a failure status
C9_MalformedConfigIsFatal ==
  MalformedConfig =>
    /\ mainPc = "init" /\ child.state = "none" /\ subcmdPid = Sentinel
    /\ sink.setupCalls = 0 /\ sink.delivered = <<>> /\ tasks = <<>>
    /\ proc.status = "exited" => proc.code # 0

C9_Witness ==
  /\ proc.by = "fatal-config" /\ proc.code = 1
  /\ env.tags = Unset /\ env.labels = Env(LabelsBadVal)

\* the configured sink name is not registered
AbsentSink == env.emitter = "nosuch"

\* C10: with an unregistered sink name the run fails at startup: no child,
\* no signal sent to any process, no deliver or teardown call attempted, and
\* a failure status
C10_AbsentSinkFailsCleanly ==
  AbsentSink =>
    /\ child.state = "none"
    /\ killLog = <<>>
    /\ sink.delivered = <<>> /\ sink.cleanupCalls = 0
    /\ proc.by \notin {"panic-cleanup", "panic-handle"}
    /\ proc.status = "exited" => proc.code # 0

\* the HandleLogMessage call of task i returns in this step
HandleReturns(i) == tasks[i].pc = "delivering" /\ tasks'[i].pc = "done"

\* the number of HandleLogMessage calls task i has made
DeliverCalls(i) == Cardinality({ n \in 1..Len(sink.delivered) : sink.delivered[n].task = i })

\* C11: a delivery's return, with an error or without, is contained: the
\* task ends having called the sink once (no retry), the process keeps
\* running, the read loop keeps its position, and no other task and no
\* record already handed to the sink is touched; the error is only logged
C11_DeliveryErrorContained ==
  /\ [](\A i \in 1..Len(tasks) : DeliverCalls(i) <= 1)
  /\ [][\A i \in 1..Len(tasks) :
          HandleReturns(i) =>
            /\ proc' = proc /\ mainPc' = mainPc /\ budget' = budget
            /\ lines' = lines /\ scanner' = scanner
            /\ sink'.delivered = sink.delivered
            /\ Len(tasks') = Len(tasks)
            /\ tasks'[i] = [tasks[i] EXCEPT !.pc = "done"]
            /\ \A j \in 1..Len(tasks) : j # i => tasks'[j] = tasks[j]]_vars
  /\ [][\A i \in 1..Len(tasks) : tasks[i].pc = "done" => tasks'[i] = tasks[i]]_vars

\* the first line's delivery has failed; the supervisor still runs, the
\* read loop is still reading, and the second line's task is inside the sink
C11_Witness ==
  /\ Running /\ mainPc = "scan" /\ Len(tasks) = 2
  /\ tasks[1].pc = "done" /\ sink.errLogged
  /\ tasks[2].pc = "delivering"
  /\ Len(sink.delivered) = 2 /\ sink.delivered[2].task = 2

\* C12: a teardown error changes nothing in the shutdown: once Cleanup has
\* returned, with an error or without, the relay stands at os.Exit(0), that
\* exit can be taken while the process runs, and every exit taken by the
\* relay carries status 0
C12_TeardownErrorNotPropagated ==
  /\ sink.cleanupDone => relay.pc = "exit"
  /\ relay.cleanupErr => sink.cleanupDone /\ sink.errLogged
  /\ (Running /\ relay.cleanupErr) => ENABLED RelayExit
  /\ proc.by = "relay" => proc.code = 0
  /\ proc.by \notin {"fatal-cleanup", "panic-cleanup"} \/ emitter = "nil"

\* the relay has ended the supervisor with status 0 after a failed teardown
C12_Witness ==
  proc.by = "relay" /\ proc.code = 0 /\ relay.cleanupErr /\ sink.cleanupCalls = 1

\* some line read and dispatched has not been handed to the sink
SomeLineUndelivered == \E i \in 1..Len(tasks) : DeliverCalls(i) = 0

\* C13: once Scan has returned false main can return at once, whatever the
\* tasks and the child are doing; the process then ends with status 0
\* whatever the child's status, and nothing is delivered afterwards
C13_EndOfStreamDoesNotWait ==
  /\ []((Running /\ mainPc = "return") => ENABLED MainReturn)
  /\ [](proc.by = "eof" => proc.code = 0 /\ mainPc = "return")
  /\ [][proc.status = "exited" => (sink' = sink /\ tasks' = tasks /\ child' = child)]_vars

\* main has returned while the child, its stderr closed, still runs and a
\* dispatched line never reached the sink
C13_Witness ==
  /\ proc.by = "eof" /\ proc.code = 0
  /\ child.state = "closed" /\ SomeLineUndelivered

\* main has returned with status 0 although the child failed
C13_WitnessStatus ==
  proc.by = "eof" /\ proc.code = 0 /\ child.state = "exited" /\ child.status = 1

\* the spawn failed: StderrPipe or Start has returned an error
SpawnFailed == mainPc \in {"pipeFatal", "startFatal"}

\* the process was ended by the log.Fatal that follows a failed spawn
SpawnFailureExit == proc.by \in {"fatal-pipe", "fatal-start"}

\* after a failed spawn the pid is still the sentinel, there is no child,
\* the read loop was never entered (no line read, no task) and nothing was
\* delivered; the only step main has left is the fatal exit
SpawnFailureStopsMain ==
  /\ child.state = "failed" <=> mainPc = "startFatal"
  /\ SpawnFailureExit => SpawnFailed /\ proc.code = 1
  /\ SpawnFailed =>
       /\ subcmdPid = Sentinel
       /\ child.state \in {"none", "failed"}
       /\ lines = <<>> /\ tasks = <<>> /\ sink.delivered = <<>>
  /\ (SpawnFailed /\ Running) => ENABLED (MainPipeFatal \/ MainStartFatal)

\* C14 as stated: a failed spawn ends the process at once with a nonzero
\* status, with the pid still the sentinel, the read loop never entered (no
\* line read, no task) and nothing delivered
C14_SpawnFailureIsFatal ==
  /\ SpawnFailureStopsMain
  /\ (SpawnFailed /\ proc.status = "exited") => proc.code # 0

\* C14 amended: after a failed spawn the pid is still the sentinel, the read
\* loop is never entered and nothing is delivered, and the process ends
\* with a nonzero status unless the signal relay ends it first
C14_SpawnFailureIsFatalUnlessRelayed ==
  /\ SpawnFailureStopsMain
  /\ (SpawnFailed /\ proc.status = "exited") => (proc.code # 0 \/ proc.by = "relay")

\* Start failed after Setup had returned, and log.Fatal ended the process
C14_Witness ==
  /\ proc.by = "fatal-start" /\ proc.code = 1 /\ child.state = "failed"
  /\ sink.setupDone /\ subcmdPid = Sentinel

\* Start failed, and the relay's os.Exit(0) came before main's log.Fatal
C14_WitnessRelayFirst ==
  mainPc = "startFatal" /\ child.state = "failed" /\ proc.by = "relay" /\ proc.code = 0

\* the signals the relay has taken from the channel
Received == IF relay.signalReceived = "none" THEN 0 ELSE 1

\* C15: signal.Notify and the start of the relay precede the spawn, and
\* every catchable signal raised after signal.Notify is in the channel or
\* has been received by the relay
C15_NoSignalLostAfterRegistration ==
  /\ mainPc \in {"pipe", "pipeFatal", "start", "startFatal", "recordPid", "scan",
               "return"} =>
       notified /\ relay.pc # "none"
  /\ child.state # "none" => notified /\ relay.pc # "none"
  /\ budget.caught = Len(signalChan) + Received

\* task i has classified the text it read: its bytes are what Emit makes of it
Classified(i) ==
  \E now \in LifeTimestamps :
    tasks[i].bytes = Emit(tasks[i].arg, now, defaultTags, defaultLabels)

\* C16: within a task the deliver call comes after the classification and
\* happens once: a task that has not classified has not delivered, a task
\* that has delivered did so once, with the bytes its classification made;
\* nothing orders the tasks among themselves or against the read loop
C16_ClassifyThenDeliver ==
  /\ \A i \in 1..Len(tasks) :
       /\ tasks[i].pc \in {"start", "classified"} => DeliverCalls(i) = 0
       /\ tasks[i].pc \in {"delivering", "done"} => DeliverCalls(i) = 1 /\ Classified(i)
       /\ tasks[i].pc = "classified" => Classified(i)
  /\ \A n \in 1..Len(sink.delivered) :
       /\ sink.delivered[n].task \in 1..Len(tasks)
       /\ sink.delivered[n].bytes = tasks[sink.delivered[n].task].bytes
  /\ Len(tasks) = Len(lines)

\* the second line was read while the first task had not delivered, and it
\* reached the sink before the first
C16_Witness ==
  /\ Len(lines) = 2 /\ Len(sink.delivered) = 2
  /\ sink.delivered[1].task = 2 /\ sink.delivered[2].task = 1

\* the read loop has dispatched the second line while the first task has
\* not even classified
C16_WitnessReadAhead ==
  Running /\ Len(tasks) = 2 /\ tasks[1].pc = "start" /\ tasks[2].pc = "done"

\* the relay has taken a signal from the channel
RelayReceived == relay.signalReceived # "none"

\* C17 as stated: once the relay has received a signal (with a sink whose
\* teardown can return), the supervisor ends with status 0
C17_RelayEndsWithStatusZero ==
  (RelayReceived /\ emitter # "nil") ~> (proc.status = "exited" /\ proc.code = 0)

\* C17 amended: once the relay has received a signal (with a sink whose
\* teardown can return), the supervisor ends, whatever the child, the read
\* loop and the tasks are doing; it ends with status 0 unless main's spawn
\* fails first
C17_RelayEndsProcess ==
  (RelayReceived /\ emitter # "nil") ~>
     (proc.status = "exited" /\ (proc.code = 0 \/ SpawnFailureExit))

\* the relay ended the supervisor with status 0 while the child runs, the
\* read loop waits for a line and a task is inside the sink
C17_Witness ==
  /\ proc.by = "relay" /\ proc.code = 0
  /\ child.state = "running" /\ mainPc = "scan"
  /\ \E i \in 1..Len(tasks) : tasks[i].pc = "delivering"

\* C18: every Cleanup call is made after Setup has returned
C18_CleanupAfterSetup ==
  \A n \in 1..Len(sink.cleanupLog) : sink.cleanupLog[n].setupDone

\* C19: every HandleLogMessage call begins before Cleanup is called
C19_NoDeliveryAfterCleanup ==
  \A n \in 1..Len(sink.delivered) : sink.delivered[n].cleanupCalls = 0

\* kill n reached the child: it named the child's pid, or it was the
\* broadcast to pid -1 made while the child existed
KillReachedChild(n) ==
  \/ killLog[n].pid = ChildPid
  \/ killLog[n].pid = Sentinel /\ killLog[n].spawned

\* C20: when the relay ends the supervisor and the child has been spawned,
\* the mapped signal has gone to the child
C20_SpawnedChildIsSignaled ==
  (proc.by = "relay" /\ child.state \in {"running", "closed", "exited"}) =>
     \E n \in 1..Len(killLog) :
        KillReachedChild(n) /\ killLog[n].sig = relay.signalToSendChild

====
